---- MODULE Spec2Model ----
(***************************************************************************)
(* Water Quality Evaluator client (uyuku/WQM).                             *)
(*                                                                         *)
(* The form component keeps formData, error and loading; the App keeps     *)
(* evaluationResult.  handleChange stores a coerced field value,           *)
(* handleSubmit posts the form data through evaluateWaterQuality and       *)
(* applies the outcome when the call resolves.                             *)
(*                                                                         *)
(* The repository holds two revisions of the form's handlers:              *)
(*   "client"   src/client/src/components/WaterQualityForm.jsx             *)
(*   "part_000" src/unnamed/part_000 (both copies in that file carry the   *)
(*              same handleChange / handleSubmit)                          *)
(* The revision is fixed in Init and every property is checked for both.   *)
(*                                                                         *)
(* Strings typed by the user are sequences of one-character strings, so    *)
(* that parseFloat can scan them.  JavaScript values stored in formData    *)
(* are records [t, num, dec]: t is "num", "nan", "null" or "empty" (the    *)
(* empty string ''), and a number is num / 10^dec with trailing zeros of   *)
(* the fraction removed (-0 and 0 are the same record; they compare equal  *)
(* in JavaScript and serialise to the same JSON).                          *)
(***************************************************************************)
EXTENDS Integers, Sequences, FiniteSets, TLC

VARIABLES
    revision,           \* which revision of the form's handlers runs
    formData,           \* useState({}) of the form: key -> stored value
    error,              \* useState('') of the form
    loading,            \* useState(false) of the form
    evaluationResult,   \* useState(null) of App
    inflight,           \* pending evaluateWaterQuality calls
    lastRaw,            \* key -> last event.target.value of that field
    last,               \* the call that resolved most recently
    nChange,            \* handleChange invocations so far
    nSubmit,            \* handleSubmit invocations so far
    nPost               \* axios.post calls so far

vars == <<revision, formData, error, loading, evaluationResult, inflight,
          lastRaw, last, nChange, nSubmit, nPost>>

(***************************************************************************)
(* Bounds of the model.                                                    *)
(***************************************************************************)
MaxChange == 2      \* field-change events in one run
MaxSubmit == 2      \* submissions in one run

(***************************************************************************)
(* Parameter schema.                                                       *)
(***************************************************************************)
parameters ==
    << "Temperature", "pH", "Turbidity", "DissolvedOxygen", "Conductivity",
       "TotalDissolvedSolids", "Nitrate", "Phosphate", "TotalColiforms",
       "Ecoli", "BOD", "COD", "Hardness", "Alkalinity", "Iron" >>

ParameterKeys == { parameters[i] : i \in 1..Len(parameters) }

\* the fields that receive change events; the other thirteen stay untouched
EditedFields == { "Temperature", "pH" }

Revisions == { "client", "part_000" }

(***************************************************************************)
(* JavaScript values.                                                      *)
(***************************************************************************)
Null == [t |-> "null", num |-> 0, dec |-> 0]

EmptyString == [t |-> "empty", num |-> 0, dec |-> 0]

NaN == [t |-> "nan", num |-> 0, dec |-> 0]

RECURSIVE Number(_, _)
Number(n, d) ==
    IF d > 0 /\ n % 10 = 0
    THEN Number(n \div 10, d - 1)
    ELSE [t |-> "num", num |-> n, dec |-> d]

(***************************************************************************)
(* Raw strings a field-change event may carry.                             *)
(***************************************************************************)
RawInputs ==
    { <<>>,
      <<"0">>,
      <<"-", "1", ".", "5">>,
      <<"7", ".", "2">>,
      <<"a", "b", "c">>,
      <<"-">>,
      <<".">> }

DigitChars == << "0", "1", "2", "3", "4", "5", "6", "7", "8", "9" >>

IsDigit(c) == \E i \in 1..Len(DigitChars) : DigitChars[i] = c

DigitValue(c) == (CHOOSE i \in 1..Len(DigitChars) : DigitChars[i] = c) - 1

RECURSIVE Pow10(_)
Pow10(k) == IF k = 0 THEN 1 ELSE 10 * Pow10(k - 1)

\* number of consecutive digits of s starting at position p
RECURSIVE DigitRun(_, _)
DigitRun(s, p) ==
    IF p <= Len(s) /\ IsDigit(s[p]) THEN 1 + DigitRun(s, p + 1) ELSE 0

\* the natural number written by the n digits of s starting at position p
RECURSIVE DigitsValue(_, _, _)
DigitsValue(s, p, n) ==
    IF n = 0 THEN 0
    ELSE 10 * DigitsValue(s, p, n - 1) + DigitValue(s[p + n - 1])

(***************************************************************************)
(* parseFloat: the value of the longest prefix of s that is a decimal      *)
(* literal (sign, digits, "." and digits), NaN when there is none.         *)
(* Whitespace, exponents and "Infinity" use characters no raw input has.   *)
(***************************************************************************)
parseFloat(s) ==
    LET signed == Len(s) >= 1 /\ s[1] \in {"-", "+"}
        sgn == IF signed /\ s[1] = "-" THEN -1 ELSE 1
        p == IF signed THEN 2 ELSE 1
        ni == DigitRun(s, p)
        dot == p + ni <= Len(s) /\ s[p + ni] = "."
        nf == IF dot THEN DigitRun(s, p + ni + 1) ELSE 0
    IN  IF ni = 0 /\ nf = 0
        THEN NaN
        ELSE Number(sgn * (DigitsValue(s, p, ni) * Pow10(nf)
                             + DigitsValue(s, p + ni + 1, nf)), nf)

\* ToBoolean of a string: only '' is falsy
Truthy(s) == Len(s) > 0

\* { ...obj, [k]: v }
Spread(obj, k, v) ==
    [x \in (DOMAIN obj) \cup {k} |-> IF x = k THEN v ELSE obj[x]]

EmptyObject == [x \in {} |-> Null]

(***************************************************************************)
(* The evaluation service and axios.                                       *)
(***************************************************************************)
\* response.data of a successful POST /evaluate
Results ==
    { [quality_score |-> 82, report |-> "Good", graph |-> "iVBORw0KGgo="],
      [quality_score |-> 35, report |-> "Poor", graph |-> "R0lGODlhAQ=="] }

\* error.response.data of a non-2xx answer: an object with a detail string
\* (possibly the empty string), an object without one, or no body ('')
Body(kind, hasDetail, detail) ==
    [kind |-> kind, hasDetail |-> hasDetail, detail |-> detail]

NoBody == Body("none", FALSE, "")

AxiosError(response, request, status, data) ==
    [response |-> response, request |-> request, status |-> status,
     data |-> data]

\* answers of the service with a non-success status; axios sets both
\* error.response and error.request for them
ServiceErrors ==
    { AxiosError(TRUE, TRUE, 422, Body("object", TRUE, "Invalid pH value")),
      AxiosError(TRUE, TRUE, 400, Body("object", TRUE, "")),
      AxiosError(TRUE, TRUE, 500, Body("object", FALSE, "")),
      AxiosError(TRUE, TRUE, 502, Body("empty", FALSE, "")) }

\* the request was sent and nothing came back
NoResponseError == AxiosError(FALSE, TRUE, 0, NoBody)

\* the request could not be set up
SetupError == AxiosError(FALSE, FALSE, 0, NoBody)

\* what axios.post may reject with
AxiosErrors == ServiceErrors \cup { NoResponseError, SetupError }

\* err of a call that did not fail
NoError == AxiosError(FALSE, FALSE, -1, NoBody)

FallbackMessage == "An error occurred while evaluating water quality."

NoResponseMessage == "The server did not respond. Please check your connection."

SetupMessage == "An error occurred while setting up the request."

\* the detail never read (error.response.detail instead of .data.detail)
DetailOr_unread(data, fallback) == fallback

\* data.detail || fallback: undefined and '' are both falsy
DetailOr(data, fallback) ==
    IF data.hasDetail /\ data.detail # "" THEN data.detail ELSE fallback

\* the catch block testing error.request before error.response
evaluateWaterQuality_catch_requestFirst(err) ==
    IF err.request THEN NoResponseMessage
    ELSE IF err.response THEN DetailOr(err.data, FallbackMessage)
    ELSE SetupMessage

\* the message of the Error thrown by evaluateWaterQuality's catch block
evaluateWaterQuality_catch(err) ==
    IF err.response THEN DetailOr(err.data, FallbackMessage)
    ELSE IF err.request THEN NoResponseMessage
    ELSE SetupMessage

(***************************************************************************)
(* The form's handlers.                                                    *)
(***************************************************************************)
\* handleChange written with parseFloat(value) || null
handleChange_value_falsy(value) ==
    IF value = <<>>
    THEN (IF revision = "client" THEN Null ELSE EmptyString)
    ELSE (IF parseFloat(value) \in { NaN, Number(0, 0) }
          THEN Null ELSE parseFloat(value))

\* the value handleChange stores for the raw string value
handleChange_value(value) ==
    IF revision = "client"
    THEN (IF Truthy(value) THEN parseFloat(value) ELSE Null)
    ELSE (IF value = <<>> THEN EmptyString ELSE parseFloat(value))

\* the object handleSubmit hands to evaluateWaterQuality
processedFormData ==
    IF revision = "client"
    THEN formData
    ELSE [k \in DOMAIN formData |->
              IF formData[k] = EmptyString THEN Null ELSE formData[k]]

\* handleChange assigning formData[name] in place: the object handed to a
\* pending call changes with it
handleChange_inPlace(name, value) ==
    /\ nChange < MaxChange
    /\ formData' = Spread(formData, name, handleChange_value(value))
    /\ inflight' =
          { [c EXCEPT !.payload =
                 Spread(c.payload, name, handleChange_value(value))] :
            c \in inflight }
    /\ lastRaw' = Spread(lastRaw, name, value)
    /\ nChange' = nChange + 1
    /\ UNCHANGED <<revision, error, loading, evaluationResult, last, nSubmit,
                   nPost>>

handleChange(name, value) ==
    /\ nChange < MaxChange
    /\ formData' = Spread(formData, name, handleChange_value(value))
    /\ lastRaw' = Spread(lastRaw, name, value)
    /\ nChange' = nChange + 1
    /\ UNCHANGED <<revision, error, loading, evaluationResult, inflight,
                   last, nSubmit, nPost>>

\* handleSubmit without its setError('')
SubmitStart_keepsError ==
    /\ loading' = TRUE
    /\ error' = error

\* setLoading(true); setError('')
SubmitStart ==
    /\ loading' = TRUE
    /\ error' = ""

\* handleSubmit returning early while a call is pending
SubmitCall_debounced ==
    IF loading
    THEN inflight' = inflight /\ nPost' = nPost
    ELSE /\ inflight' =
              { [id |-> nSubmit + 1, payload |-> processedFormData,
                 overlapped |-> FALSE, errorBefore |-> error] }
         /\ nPost' = nPost + 1

\* evaluateWaterQuality(...) -> axios.post(`/evaluate`, data), left pending
SubmitCall ==
    /\ inflight' =
          { [c EXCEPT !.overlapped = TRUE] : c \in inflight }
          \cup { [id |-> nSubmit + 1, payload |-> processedFormData,
                  overlapped |-> inflight # {}, errorBefore |-> error] }
    /\ nPost' = nPost + 1

handleSubmit ==
    /\ nSubmit < MaxSubmit
    /\ nSubmit' = nSubmit + 1
    /\ SubmitStart
    /\ SubmitCall
    /\ UNCHANGED <<revision, formData, evaluationResult, lastRaw, last,
                   nChange>>

\* handleResult keeping a result that is already shown
handleResult_keepsFirst(result) ==
    evaluationResult' = IF evaluationResult = Null THEN result
                        ELSE evaluationResult

\* App.handleResult
handleResult(result) == evaluationResult' = result

\* handleSubmit without its finally block
SubmitFinally_missing == loading' = loading

\* finally { setLoading(false) }
SubmitFinally == loading' = FALSE

\* the pending call c resolves with response.data = data
Resolve(c, data) ==
    /\ c \in inflight
    /\ inflight' = inflight \ {c}
    /\ handleResult(data)
    /\ SubmitFinally
    /\ last' = [id |-> c.id, ok |-> TRUE, err |-> NoError, message |-> "",
                result |-> data, overlapped |-> c.overlapped,
                errorBefore |-> c.errorBefore]
    /\ UNCHANGED <<revision, formData, error, lastRaw, nChange, nSubmit,
                   nPost>>

\* catch (err) { setError(err.message) }
SubmitCatch(message) == error' = message

\* the pending call c rejects with the axios error err
Reject(c, err) ==
    /\ c \in inflight
    /\ inflight' = inflight \ {c}
    /\ SubmitCatch(evaluateWaterQuality_catch(err))
    /\ SubmitFinally
    /\ last' = [id |-> c.id, ok |-> FALSE, err |-> err,
                message |-> evaluateWaterQuality_catch(err),
                result |-> Null, overlapped |-> c.overlapped,
                errorBefore |-> c.errorBefore]
    /\ UNCHANGED <<revision, formData, evaluationResult, lastRaw, nChange,
                   nSubmit, nPost>>

NoLast ==
    [id |-> 0, ok |-> FALSE, err |-> NoError, message |-> "",
     result |-> Null, overlapped |-> FALSE, errorBefore |-> ""]

Init ==
    /\ revision \in Revisions
    /\ formData = EmptyObject
    /\ error = ""
    /\ loading = FALSE
    /\ evaluationResult = Null
    /\ inflight = {}
    /\ lastRaw = EmptyObject
    /\ last = NoLast
    /\ nChange = 0
    /\ nSubmit = 0
    /\ nPost = 0

Next ==
    \/ \E name \in EditedFields, value \in RawInputs :
           handleChange(name, value)
    \/ handleSubmit
    \/ \E c \in inflight, data \in Results : Resolve(c, data)
    \/ \E c \in inflight, err \in AxiosErrors : Reject(c, err)

Spec == Init /\ [][Next]_vars

(***************************************************************************)
(* The form used through its submit control only: the Button is disabled   *)
(* while loading, so a submission starts only when loading is false.       *)
(***************************************************************************)
\* <Button type="submit" disabled={loading}>
submitEnabled == ~loading

submitClicked ==
    /\ submitEnabled
    /\ handleSubmit

NextHonoured ==
    \/ \E name \in EditedFields, value \in RawInputs :
           handleChange(name, value)
    \/ submitClicked
    \/ \E c \in inflight, data \in Results : Resolve(c, data)
    \/ \E c \in inflight, err \in AxiosErrors : Reject(c, err)

SpecHonoured == Init /\ [][NextHonoured]_vars

(***************************************************************************)
(* What a field shows: the value expression of its TextField, converted    *)
(* to a string as React does for the value attribute.                      *)
(***************************************************************************)
\* the decimal digits of the natural number n
RECURSIVE NaturalToString(_)
NaturalToString(n) ==
    IF n < 10 THEN << DigitChars[n + 1] >>
    ELSE NaturalToString(n \div 10) \o << DigitChars[(n % 10) + 1] >>

\* the k low decimal digits of n, leading zeros included
RECURSIVE LowDigits(_, _)
LowDigits(n, k) ==
    IF k = 0 THEN << >>
    ELSE LowDigits(n \div 10, k - 1) \o << DigitChars[(n % 10) + 1] >>

\* String(v) for the values formData holds
StringOf(v) ==
    IF v.t = "empty" THEN << >>
    ELSE IF v.t = "null" THEN << "n", "u", "l", "l" >>
    ELSE IF v.t = "nan" THEN << "N", "a", "N" >>
    ELSE LET m == IF v.num < 0 THEN 0 - v.num ELSE v.num
             sign == IF v.num < 0 THEN << "-" >> ELSE << >>
             whole == NaturalToString(m \div Pow10(v.dec))
         IN  IF v.dec = 0 THEN sign \o whole
             ELSE sign \o whole \o << "." >> \o LowDigits(m, v.dec)

\* ToBoolean of a stored value: null, '', NaN and 0 are falsy
TruthyValue(v) == v.t = "num" /\ v.num # 0

\* value={formData[param.name] || ''}
TextField_value_client(name) ==
    IF TruthyValue(formData[name]) THEN StringOf(formData[name]) ELSE << >>

\* value={formData[param.name]}
TextField_value_number(name) == StringOf(formData[name])

\* value={formData[param.name] === 0 ? '0' : formData[param.name] || ''}
TextField_value_text(name) ==
    IF formData[name] = Number(0, 0) THEN << "0" >>
    ELSE IF TruthyValue(formData[name]) THEN StringOf(formData[name])
    ELSE << >>

\* what the edited field name shows, for each TextField of the revision
TextField_values(name) ==
    IF revision = "client"
    THEN { TextField_value_client(name) }
    ELSE { TextField_value_number(name), TextField_value_text(name) }

(***************************************************************************)
(* Reading a raw string as a whole: the decimal grammar of the payload     *)
(* contract (optional sign, digits with at most one ".", at least one      *)
(* digit) and the number such a string writes.                             *)
(***************************************************************************)
Unsigned(s) == IF Len(s) >= 1 /\ s[1] \in {"-", "+"} THEN Tail(s) ELSE s

IsDot(c) == c = "."

IsDecimalLiteral(s) ==
    LET u == Unsigned(s)
    IN  /\ \A i \in 1..Len(u) : IsDigit(u[i]) \/ IsDot(u[i])
        /\ Len(SelectSeq(u, IsDot)) <= 1
        /\ Len(SelectSeq(u, IsDigit)) >= 1

RECURSIVE NaturalOf(_)
NaturalOf(ds) ==
    IF ds = <<>> THEN 0
    ELSE 10 * NaturalOf(SubSeq(ds, 1, Len(ds) - 1)) + DigitValue(ds[Len(ds)])

DecimalValue(s) ==
    LET u == Unsigned(s)
        dots == { i \in 1..Len(u) : IsDot(u[i]) }
        places == IF dots = {} THEN 0 ELSE Len(u) - (CHOOSE i \in dots : TRUE)
        magnitude == NaturalOf(SelectSeq(u, IsDigit))
    IN  Number(IF s[1] = "-" THEN 0 - magnitude ELSE magnitude, places)

\* the calls a handleSubmit step has just dispatched
Dispatched == { c \in inflight' : c.id > nSubmit }

\* a field holds a non-empty value that is not a number
Malformed(raw) ==
    \E k \in DOMAIN raw : raw[k] # <<>> /\ ~IsDecimalLiteral(raw[k])

(***************************************************************************)
(* C1: the payload handed to evaluateWaterQuality contains every one of    *)
(* the fifteen parameter keys, and the entry of a key that was never       *)
(* edited, or whose last entered value is the empty string, is null.       *)
(***************************************************************************)
C1_EveryKeyInPayload ==
    [][ \A c \in Dispatched : \A k \in ParameterKeys :
            /\ k \in DOMAIN c.payload
            /\ (k \notin DOMAIN lastRaw \/ lastRaw[k] = <<>>)
                   => c.payload[k] = Null ]_vars

(***************************************************************************)
(* C2: a submission made while some field holds a non-empty value that is  *)
(* not a valid number sets the Error State and dispatches no call, and no  *)
(* payload handed to evaluateWaterQuality ever contains NaN.               *)
(***************************************************************************)
C2_MalformedRejected ==
    /\ [][ (nSubmit' = nSubmit + 1 /\ Malformed(lastRaw))
               => (error' # "" /\ nPost' = nPost /\ inflight' = inflight) ]_vars
    /\ [](\A c \in inflight : \A k \in DOMAIN c.payload : c.payload[k] # NaN)

(***************************************************************************)
(* C3: for every key whose last entered raw value is a decimal literal,    *)
(* the payload entry handleSubmit sends for it is the number the literal   *)
(* writes; "0" is sent as the number 0, not as null.                       *)
(***************************************************************************)
C3_ParsedExactly ==
    [][ \A c \in Dispatched : \A k \in DOMAIN lastRaw :
            IsDecimalLiteral(lastRaw[k])
                => /\ k \in DOMAIN c.payload
                   /\ c.payload[k] = DecimalValue(lastRaw[k]) ]_vars

\* a call is pending whose payload carries 0 for a field showing "0" and
\* -1.5 for a field showing "-1.5"
C3_Witness ==
    \E c \in inflight : \E k, j \in DOMAIN c.payload :
        /\ k \in DOMAIN lastRaw /\ j \in DOMAIN lastRaw
        /\ lastRaw[k] = <<"0">> /\ c.payload[k] = Number(0, 0)
        /\ lastRaw[j] = <<"-", "1", ".", "5">>
        /\ c.payload[j] = Number(0 - 15, 1)

\* a step in which a pending call resolves or rejects
Settled == last'.id # last.id

C6_OneCallPerSubmit ==
    /\ [](nPost = nSubmit)
    /\ [][ nSubmit' = nSubmit + 1
               => /\ nPost' = nPost + 1
                  /\ Cardinality(inflight') = Cardinality(inflight) + 1 ]_vars
    /\ [][ Settled
               => /\ nPost' = nPost
                  /\ Cardinality(inflight') = Cardinality(inflight) - 1 ]_vars

\* two submissions made two calls, the later one while the first was
\* pending, and the last one to resolve failed without being issued again
C6_Witness ==
    /\ nSubmit = 2 /\ nPost = 2
    /\ inflight = {}
    /\ last.overlapped /\ ~last.ok

(***************************************************************************)
(* C7: when two submissions overlap, once both calls have resolved the     *)
(* Error State and the Result are those of the submission that resolved    *)
(* last, never one submission's result with the other's error, and         *)
(* loading is false.                                                       *)
(***************************************************************************)
C7_LastResolvedWins ==
    (nSubmit = 2 /\ inflight = {} /\ last.overlapped)
        => /\ ~loading
           /\ last.ok => (error = "" /\ evaluationResult = last.result)
           /\ ~last.ok => (error = last.message /\ evaluationResult = Null)

(***************************************************************************)
(* C8: every handleSubmit clears the Error State in the step that          *)
(* dispatches the call, and when a submission that overlapped no other     *)
(* resolves, the Error State is empty if it succeeded and its failure      *)
(* message if it failed, whatever an earlier attempt had left.             *)
(***************************************************************************)
C8_ErrorPerAttempt ==
    /\ [][ nSubmit' = nSubmit + 1 => error' = "" ]_vars
    /\ [][ (Settled /\ ~last'.overlapped)
               => error' = IF last'.ok THEN "" ELSE last'.message ]_vars

\* an attempt started while an earlier failure was shown has succeeded
\* alone, and the Error State is empty
C8_Witness ==
    /\ last.id # 0 /\ last.ok /\ ~last.overlapped
    /\ last.errorBefore # ""
    /\ error = ""

(***************************************************************************)
(* C9: whenever a call resolves, with success or any failure, loading is   *)
(* cleared (the submit control is enabled again) and the form data is      *)
(* untouched; loading is never true once every call has resolved.          *)
(***************************************************************************)
C9_NoFailureFatal ==
    /\ [](inflight = {} => ~loading)
    /\ [][ Settled => (~loading' /\ formData' = formData) ]_vars

\* a resubmission made after a failure has itself failed, and the form,
\* with its data, is ready for another one
C9_Witness ==
    /\ last.id = 2 /\ ~last.ok
    /\ last.errorBefore # ""
    /\ inflight = {} /\ ~loading
    /\ formData # EmptyObject

(***************************************************************************)
(* C10: the stored Evaluation Result is none initially; a successful call  *)
(* replaces it with that call's response; every other step (a failure, a   *)
(* field change, a submit) leaves it unchanged; once set it is never none  *)
(* again.                                                                  *)
(***************************************************************************)
C10_ResultLifecycle ==
    /\ evaluationResult = Null
    /\ [][ IF Settled /\ last'.ok
           THEN evaluationResult' = last'.result
           ELSE evaluationResult' = evaluationResult ]_vars
    /\ [][ evaluationResult # Null => evaluationResult' # Null ]_vars

\* a second call succeeded after the first one had succeeded, and the
\* stored result is the second call's response
C10_Witness ==
    /\ last.id = 2 /\ last.ok
    /\ evaluationResult = last.result
    /\ last.errorBefore = "" /\ ~last.overlapped
    /\ nChange = 0

(***************************************************************************)
(* C11: a field-change event stores the raw string verbatim, so after      *)
(* every change event the field shows the raw string the user entered; a   *)
(* partially typed number such as "-" or "0" is not replaced or blanked.   *)
(***************************************************************************)
C11_ShowsRawString ==
    \A name \in DOMAIN lastRaw :
        \A shown \in TextField_values(name) : shown = lastRaw[name]

(***************************************************************************)
(* C12: when submissions start only while loading is false, at most one    *)
(* evaluation call is pending in every reachable state and loading is true *)
(* exactly when one is; a field change leaves the pending call, with its   *)
(* payload, and the loading, error and result state as they were.          *)
(***************************************************************************)
C12_SingleFlight ==
    /\ [](Cardinality(inflight) <= 1)
    /\ [](loading <=> inflight # {})
    /\ [][ nChange' = nChange + 1
               => /\ inflight' = inflight
                  /\ loading' = loading
                  /\ error' = error
                  /\ evaluationResult' = evaluationResult ]_vars

\* the one pending call was dispatched from the untouched form and still
\* carries the empty payload after a field was edited
C12_Witness ==
    /\ loading
    /\ Cardinality(inflight) = 1
    /\ \A c \in inflight : c.payload = EmptyObject
    /\ formData # EmptyObject

====
